---- MODULE Spec2Model ----
(***************************************************************************)
(* A model of flatgrid's Grid (src/src/grid.rs): a row-major flat vector   *)
(* of Cells with its structural operations.  Every public operation of     *)
(* Grid is an operator over a grid value [cells, row_size, col_size] that  *)
(* returns the grid it leaves behind and how the call ended ("ok", one of  *)
(* the GridError kinds, or "panic"); the actions apply these operators to  *)
(* the one grid the state holds.  Indices are 0-based as in the source;    *)
(* At/SetAt translate them to TLA+'s 1-based sequences.                    *)
(***************************************************************************)
EXTENDS Integers, Sequences, FiniteSets, TLC

\* Largest row count, column count and cell count a grid of the model grows to.
MaxRows == 3
MaxCols == 3
MaxCells == 6

VARIABLES cells, row_size, col_size, last

vars == <<cells, row_size, col_size, last>>

(***************************************************************************)
(* Cell (src/src/cell.rs).  An Option of an enum is "None" or the variant,  *)
(* an Option<usize> the empty sequence or the sequence of its one value; a *)
(* String is the sequence of its characters; the style flags are the u8    *)
(* bitfield.                                                               *)
(***************************************************************************)
None == "None"

NoSize == <<>>

SomeSize(n) == <<n>>

Cell_new(data) ==
    [data |-> data, h_align |-> None, v_align |-> None, fg_color |-> None,
     bg_color |-> None, font_style |-> 0, width |-> NoSize, height |-> NoSize]

\* Cell::default(): the derived Default, an empty string and nothing set.
Cell_default == Cell_new(<<>>)

\* A cell with content and formatting, as a caller builds it with the setters.
CellA ==
    [Cell_new(<<"a">>) EXCEPT !.h_align = "Right", !.fg_color = "Red", !.font_style = 1]

\* The cell values the inputs are drawn from.
Pool == {Cell_default, CellA}

(***************************************************************************)
(* Vec helpers, 0-based.                                                   *)
(***************************************************************************)
At(s, k) == s[k + 1]

SetAt(s, k, v) == [s EXCEPT ![k + 1] = v]

\* Vec::resize(n, value): truncate to n or pad with value up to n.
VecResize(s, n, value) ==
    [k \in 1..n |-> IF k <= Len(s) THEN s[k] ELSE value]

\* Iterator::next().map(Into::into).unwrap_or_default() on the k-th item (0-based).
NextOrDefault(items, k) == IF k < Len(items) THEN At(items, k) ELSE Cell_default

Min(a, b) == IF a < b THEN a ELSE b

Max(a, b) == IF a > b THEN a ELSE b

MkGrid(cs, rs, co) == [cells |-> cs, row_size |-> rs, col_size |-> co]

\* What a call leaves behind: the grid and how the call ended.
Outcome(g, res) == [g |-> g, res |-> res]

(***************************************************************************)
(* Grid: construction.                                                     *)
(***************************************************************************)
Grid_new(rs, co) ==
    MkGrid([k \in 1..(co * rs) |-> Cell_default], rs, co)

RECURSIVE MaxLen(_)
MaxLen(rows) ==
    IF rows = <<>> THEN 0 ELSE Max(Len(Head(rows)), MaxLen(Tail(rows)))

RECURSIVE Flatten(_, _)
Flatten(rows, co) ==
    IF rows = <<>> THEN <<>>
    ELSE (IF Len(Head(rows)) < co THEN VecResize(Head(rows), co, Cell_default)
          ELSE Head(rows)) \o Flatten(Tail(rows), co)

\* A variant of from that takes the column count from the first row.
Grid_from_first_row(data) ==
    LET rs == Len(data)
        co == IF data = <<>> THEN 0 ELSE Len(Head(data))
    IN  MkGrid(Flatten(data, co), rs, co)

Grid_from(data) ==
    LET rs == Len(data)
        co == MaxLen(data)
    IN  MkGrid(Flatten(data, co), rs, co)

(***************************************************************************)
(* Grid: whole-grid and single-cell access.                                *)
(***************************************************************************)
set_cells(g, new_cells) ==
    Outcome([g EXCEPT !.cells = [k \in 1..Len(g.cells) |-> NextOrDefault(new_cells, k - 1)]],
            "ok")

\* A variant of set_cell that computes the flat index with the row count as stride.
set_cell_row_stride(g, row_index, col_index, cell_data) ==
    IF row_index >= g.row_size /\ col_index >= g.col_size THEN Outcome(g, "panic")
    ELSE IF row_index >= g.row_size THEN Outcome(g, "panic")
    ELSE IF col_index >= g.col_size THEN Outcome(g, "panic")
    ELSE Outcome([g EXCEPT !.cells = SetAt(g.cells, row_index * g.row_size + col_index, cell_data)],
                 "ok")

set_cell(g, row_index, col_index, cell_data) ==
    IF row_index >= g.row_size /\ col_index >= g.col_size THEN Outcome(g, "panic")
    ELSE IF row_index >= g.row_size THEN Outcome(g, "panic")
    ELSE IF col_index >= g.col_size THEN Outcome(g, "panic")
    ELSE Outcome([g EXCEPT !.cells = SetAt(g.cells, row_index * g.col_size + col_index, cell_data)],
                 "ok")

\* A variant of try_set_cell that tests the row index before the both-indices case.
try_set_cell_row_first(g, row_index, col_index, cell_data) ==
    IF row_index >= g.row_size THEN Outcome(g, "RowIndexOutOfBounds")
    ELSE IF col_index >= g.col_size THEN Outcome(g, "ColIndexOutOfBounds")
    ELSE Outcome([g EXCEPT !.cells = SetAt(g.cells, row_index * g.col_size + col_index, cell_data)],
                 "ok")

try_set_cell(g, row_index, col_index, cell_data) ==
    IF row_index >= g.row_size /\ col_index >= g.col_size
    THEN Outcome(g, "RowAndColIndexOutOfBounds")
    ELSE IF row_index >= g.row_size THEN Outcome(g, "RowIndexOutOfBounds")
    ELSE IF col_index >= g.col_size THEN Outcome(g, "ColIndexOutOfBounds")
    ELSE Outcome([g EXCEPT !.cells = SetAt(g.cells, row_index * g.col_size + col_index, cell_data)],
                 "ok")

\* Vec::get on the flat index: Some(cell) when the index is below the length.
get_cell(g, row_index, col_index) ==
    LET k == row_index * g.col_size + col_index
    IN  IF k < Len(g.cells) THEN [some |-> TRUE, cell |-> At(g.cells, k)]
        ELSE [some |-> FALSE]

get_cell_mut(g, row_index, col_index) ==
    LET k == row_index * g.col_size + col_index
    IN  IF k < Len(g.cells) THEN [some |-> TRUE, cell |-> At(g.cells, k)]
        ELSE [some |-> FALSE]

\* A variant of clear that empties the vector and keeps the dimensions.
clear_keeps_dims(g) == Outcome(MkGrid(<<>>, g.row_size, g.col_size), "ok")

clear(g) == Outcome(MkGrid(<<>>, 0, 0), "ok")

(***************************************************************************)
(* Grid: row and column iterators, as the sequence of the flat indices     *)
(* (0-based) the iterator visits, in order.                                *)
(***************************************************************************)
\* cells.iter().skip(n).take(m)
SkipTake(len, n, m) ==
    [k \in 1..Max(0, Min(m, len - n)) |-> n + k - 1]

\* cells.iter().skip(n).step_by(step): n, n + step, ... below len.
SkipStepBy(len, n, step) ==
    [k \in 1..(IF n >= len THEN 0 ELSE ((len - 1 - n) \div step) + 1) |-> n + (k - 1) * step]

row_iter(g, row_index) ==
    LET ri == IF row_index < g.row_size THEN row_index ELSE g.row_size
    IN  SkipTake(Len(g.cells), ri * g.col_size, g.col_size)

\* A variant of col_iter that skips row_size cells for an index out of bounds.
col_iter_row_skip(g, col_index) ==
    LET ci == IF col_index < g.col_size THEN col_index ELSE g.row_size
        step == Max(g.col_size, 1)
    IN  SkipStepBy(Len(g.cells), ci, step)

col_iter(g, col_index) ==
    LET ci == IF col_index < g.col_size THEN col_index ELSE g.row_size * g.col_size
        step == Max(g.col_size, 1)
    IN  SkipStepBy(Len(g.cells), ci, step)

row_iter_mut(g, row_index) ==
    LET ri == IF row_index < g.row_size THEN row_index ELSE g.row_size
    IN  SkipTake(Len(g.cells), ri * g.col_size, g.col_size)

col_iter_mut(g, col_index) ==
    LET ci == IF col_index < g.col_size THEN col_index ELSE g.row_size * g.col_size
        step == Max(g.col_size, 1)
    IN  SkipStepBy(Len(g.cells), ci, step)

\* for cell in iter { *cell = items.next().map(Into::into).unwrap_or_default() }
RECURSIVE AssignAlong(_, _, _, _)
AssignAlong(cs, idxs, items, n) ==
    IF n >= Len(idxs) THEN cs
    ELSE AssignAlong(SetAt(cs, At(idxs, n), NextOrDefault(items, n)), idxs, items, n + 1)

(***************************************************************************)
(* Grid::insert_col.  The loops run as written: rows from the last to the  *)
(* first, new column positions from the last to the first, the old column  *)
(* indices handed out by cols_iter from the last to the first.  The loop   *)
(* state is the cell vector, what is left of new_column, and whether an    *)
(* unwrap() found None.                                                    *)
(***************************************************************************)
\* new_column.pop().unwrap_or_default()
PopOrDefault(v) == IF v = <<>> THEN Cell_default ELSE v[Len(v)]

\* The vector after pop().
PopRest(v) == IF v = <<>> THEN <<>> ELSE SubSeq(v, 1, Len(v) - 1)

\* cells[dst] = std::mem::take(&mut cells[src])
MoveCell(cs, dst, src) == SetAt(SetAt(cs, src, Cell_default), dst, At(cs, src))

RECURSIVE InsertColInner(_, _, _, _, _, _, _)
InsertColInner(st, ri, ci, old_ci, col_index, old_col_size, new_col_size) ==
    IF ci < 0 \/ st.panic THEN st
    ELSE IF ci = col_index
    THEN LET st2 == [st EXCEPT !.cells = SetAt(st.cells, ri * new_col_size + ci, PopOrDefault(st.rest)),
                               !.rest = PopRest(st.rest)]
         IN  IF st2.rest = <<>> THEN st2
             ELSE InsertColInner(st2, ri, ci - 1, old_ci, col_index, old_col_size, new_col_size)
    ELSE IF old_ci < 0 THEN [st EXCEPT !.panic = TRUE]
    ELSE InsertColInner(
             [st EXCEPT !.cells = MoveCell(st.cells, ri * new_col_size + ci, ri * old_col_size + old_ci)],
             ri, ci - 1, old_ci - 1, col_index, old_col_size, new_col_size)

RECURSIVE InsertColOuter(_, _, _, _, _)
InsertColOuter(st, ri, col_index, old_col_size, new_col_size) ==
    IF ri < 0 \/ st.panic THEN st
    ELSE InsertColOuter(
             InsertColInner(st, ri, new_col_size - 1, old_col_size - 1,
                            col_index, old_col_size, new_col_size),
             ri - 1, col_index, old_col_size, new_col_size)

\* The body of insert_col after its bounds check.
InsertColCells(g, col_index, new_column) ==
    LET column == VecResize(new_column, g.row_size, Cell_default)
        old_col_size == g.col_size
        new_col_size == g.col_size + 1
        new_size == g.row_size * new_col_size
        st0 == [cells |-> VecResize(g.cells, new_size, Cell_default),
                rest |-> column, panic |-> FALSE]
        st == InsertColOuter(st0, g.row_size - 1, col_index, old_col_size, new_col_size)
    IN  IF st.panic THEN Outcome([g EXCEPT !.cells = st.cells], "panic")
        ELSE Outcome(MkGrid(st.cells, g.row_size, new_col_size), "ok")

insert_col(g, col_index, new_column) ==
    IF col_index >= g.col_size THEN Outcome(g, "panic")
    ELSE InsertColCells(g, col_index, new_column)

try_insert_col(g, col_index, new_column) ==
    IF col_index > g.col_size THEN Outcome(g, "ColIndexOutOfBounds")
    ELSE insert_col(g, col_index, new_column)

(***************************************************************************)
(* Grid::insert_row: columns from the last to the first, new row positions *)
(* from the last to the first, old row indices from rows_iter.             *)
(***************************************************************************)
RECURSIVE InsertRowInner(_, _, _, _, _, _)
InsertRowInner(st, ci, ri, old_ri, row_index, co) ==
    IF ri < 0 \/ st.panic THEN st
    ELSE IF ri = row_index
    THEN LET st2 == [st EXCEPT !.cells = SetAt(st.cells, ri * co + ci, PopOrDefault(st.rest)),
                               !.rest = PopRest(st.rest)]
         IN  IF st2.rest = <<>> THEN st2
             ELSE InsertRowInner(st2, ci, ri - 1, old_ri, row_index, co)
    ELSE IF old_ri < 0 THEN [st EXCEPT !.panic = TRUE]
    ELSE InsertRowInner(
             [st EXCEPT !.cells = MoveCell(st.cells, ri * co + ci, old_ri * co + ci)],
             ci, ri - 1, old_ri - 1, row_index, co)

RECURSIVE InsertRowOuter(_, _, _, _, _, _)
InsertRowOuter(st, ci, row_index, old_row_size, new_row_size, co) ==
    IF ci < 0 \/ st.panic THEN st
    ELSE InsertRowOuter(
             InsertRowInner(st, ci, new_row_size - 1, old_row_size - 1, row_index, co),
             ci - 1, row_index, old_row_size, new_row_size, co)

\* The body of insert_row after its bounds check.
InsertRowCells(g, row_index, new_row) ==
    LET row == VecResize(new_row, g.col_size, Cell_default)
        old_row_size == g.row_size
        new_row_size == g.row_size + 1
        new_size == new_row_size * g.col_size
        st0 == [cells |-> VecResize(g.cells, new_size, Cell_default),
                rest |-> row, panic |-> FALSE]
        st == InsertRowOuter(st0, g.col_size - 1, row_index, old_row_size,
                             new_row_size, g.col_size)
    IN  IF st.panic THEN Outcome([g EXCEPT !.cells = st.cells], "panic")
        ELSE Outcome(MkGrid(st.cells, new_row_size, g.col_size), "ok")

\* A variant of insert_row whose bounds check rejects the append position too.
insert_row_no_append(g, row_index, new_row) ==
    IF row_index >= g.row_size THEN Outcome(g, "panic")
    ELSE InsertRowCells(g, row_index, new_row)

insert_row(g, row_index, new_row) ==
    IF row_index > g.row_size THEN Outcome(g, "panic")
    ELSE InsertRowCells(g, row_index, new_row)

try_insert_row(g, row_index, new_row) ==
    IF row_index > g.row_size THEN Outcome(g, "RowIndexOutOfBounds")
    ELSE insert_row(g, row_index, new_row)

(***************************************************************************)
(* Grid::set_col / set_row and their reporting variants.                   *)
(***************************************************************************)
\* A variant of set_col that assigns along the row iterator.
set_col_along_row(g, col_index, new_column) ==
    IF col_index >= g.col_size THEN Outcome(g, "panic")
    ELSE Outcome([g EXCEPT !.cells = AssignAlong(g.cells, row_iter_mut(g, col_index), new_column, 0)],
                 "ok")

set_col(g, col_index, new_column) ==
    IF col_index >= g.col_size THEN Outcome(g, "panic")
    ELSE Outcome([g EXCEPT !.cells = AssignAlong(g.cells, col_iter_mut(g, col_index), new_column, 0)],
                 "ok")

\* A variant of try_set_col that reports the row error kind.
try_set_col_row_kind(g, col_index, new_column) ==
    IF col_index >= g.col_size THEN Outcome(g, "RowIndexOutOfBounds")
    ELSE set_col(g, col_index, new_column)

try_set_col(g, col_index, new_column) ==
    IF col_index >= g.col_size THEN Outcome(g, "ColIndexOutOfBounds")
    ELSE set_col(g, col_index, new_column)

set_row(g, row_index, new_row) ==
    IF row_index >= g.row_size THEN Outcome(g, "panic")
    ELSE Outcome([g EXCEPT !.cells = AssignAlong(g.cells, row_iter_mut(g, row_index), new_row, 0)],
                 "ok")

try_set_row(g, row_index, new_row) ==
    IF row_index >= g.row_size THEN Outcome(g, "RowIndexOutOfBounds")
    ELSE set_row(g, row_index, new_row)

(***************************************************************************)
(* Grid::resize: a fresh all-default vector, then the cells of the         *)
(* overlapping rectangle taken from the old vector one by one.             *)
(***************************************************************************)
RECURSIVE ResizeLoop(_, _, _, _, _, _, _, _)
ResizeLoop(new_cells, old_cells, row_index, col_index, rows, cols, old_col_size, new_col_size) ==
    IF row_index >= rows THEN new_cells
    ELSE IF col_index >= cols
    THEN ResizeLoop(new_cells, old_cells, row_index + 1, 0, rows, cols, old_col_size, new_col_size)
    ELSE ResizeLoop(
             SetAt(new_cells, row_index * new_col_size + col_index,
                   At(old_cells, row_index * old_col_size + col_index)),
             SetAt(old_cells, row_index * old_col_size + col_index, Cell_default),
             row_index, col_index + 1, rows, cols, old_col_size, new_col_size)

\* A variant of resize that stores the new dimensions swapped.
resize_swapped(g, new_row_size, new_col_size) ==
    LET old_row_size == g.row_size
        old_col_size == g.col_size
        new_cells == [k \in 1..(new_row_size * new_col_size) |-> Cell_default]
        rows == Min(old_row_size, new_row_size)
        cols == Min(old_col_size, new_col_size)
    IN  Outcome(MkGrid(ResizeLoop(new_cells, g.cells, 0, 0, rows, cols, old_col_size, new_col_size),
                       new_col_size, new_row_size),
                "ok")

\* A variant of resize that resizes the flat vector in place, ignoring the layout.
resize_flat(g, new_row_size, new_col_size) ==
    Outcome(MkGrid(VecResize(g.cells, new_row_size * new_col_size, Cell_default),
                   new_row_size, new_col_size),
            "ok")

resize(g, new_row_size, new_col_size) ==
    LET old_row_size == g.row_size
        old_col_size == g.col_size
        new_cells == [k \in 1..(new_row_size * new_col_size) |-> Cell_default]
        rows == Min(old_row_size, new_row_size)
        cols == Min(old_col_size, new_col_size)
    IN  Outcome(MkGrid(ResizeLoop(new_cells, g.cells, 0, 0, rows, cols, old_col_size, new_col_size),
                       new_row_size, new_col_size),
                "ok")

(***************************************************************************)
(* The state machine: one grid, and what the last call on it was and how   *)
(* it ended.  A panic aborts the program: nothing runs after it.           *)
(***************************************************************************)
G == MkGrid(cells, row_size, col_size)

SeqsUpTo(S, n) == UNION {[1..k -> S] : k \in 0..n}

\* Contents handed to a call: j cells with content and formatting followed by
\* default cells, of every length up to n.
CellSeqs(n) ==
    {[k \in 1..len |-> IF k <= j THEN CellA ELSE Cell_default] : len \in 0..n, j \in 0..n}

\* Index arguments of a call on g that addresses a cell, a row or a column:
\* every in-bounds index and the first one out of bounds.
RowArgs(g) == 0..g.row_size

ColArgs(g) == 0..g.col_size

\* Index arguments of an insert: in bounds, the append position, one beyond it.
RowInsertArgs(g) == 0..(g.row_size + 1)

ColInsertArgs(g) == 0..(g.col_size + 1)

\* A row / a column / all cells handed to a call on g: shorter than, as long as
\* and longer than what g needs.
RowData(g) == CellSeqs(g.col_size + 1)

ColData(g) == CellSeqs(g.row_size + 1)

AllData(g) == CellSeqs(Len(g.cells) + 1)

FromData == SeqsUpTo(CellSeqs(MaxCols), MaxRows)

Fits(g) ==
    /\ g.row_size <= MaxRows
    /\ g.col_size <= MaxCols
    /\ g.row_size * g.col_size <= MaxCells

Running == last.res # "panic"

\* The call named op ended as out says.
Apply(op, out) ==
    /\ Running
    /\ Fits(out.g)
    /\ cells' = out.g.cells
    /\ row_size' = out.g.row_size
    /\ col_size' = out.g.col_size
    /\ last' = [op |-> op, res |-> out.res]

\* A read: the grid stays, the result is Some or None.
Read(op, opt) ==
    /\ Running
    /\ last' = [op |-> op, res |-> IF opt.some THEN "Some" ELSE "None"]
    /\ UNCHANGED <<cells, row_size, col_size>>

Init ==
    /\ \E g \in {Grid_new(r, c) : r \in 0..MaxRows, c \in 0..MaxCols}
                \cup {Grid_from(d) : d \in FromData} :
          /\ Fits(g)
          /\ cells = g.cells
          /\ row_size = g.row_size
          /\ col_size = g.col_size
    /\ last = [op |-> "new", res |-> "ok"]

SetCells == \E d \in AllData(G) : Apply("set_cells", set_cells(G, d))

SetCell ==
    \E r \in RowArgs(G), c \in ColArgs(G), v \in Pool : Apply("set_cell", set_cell(G, r, c, v))

TrySetCell ==
    \E r \in RowArgs(G), c \in ColArgs(G), v \in Pool :
        Apply("try_set_cell", try_set_cell(G, r, c, v))

GetCell == \E r \in RowArgs(G), c \in ColArgs(G) : Read("get_cell", get_cell(G, r, c))

GetCellMut == \E r \in RowArgs(G), c \in ColArgs(G) : Read("get_cell_mut", get_cell_mut(G, r, c))

InsertCol == \E i \in ColInsertArgs(G), d \in ColData(G) : Apply("insert_col", insert_col(G, i, d))

TryInsertCol ==
    \E i \in ColInsertArgs(G), d \in ColData(G) : Apply("try_insert_col", try_insert_col(G, i, d))

InsertRow == \E i \in RowInsertArgs(G), d \in RowData(G) : Apply("insert_row", insert_row(G, i, d))

TryInsertRow ==
    \E i \in RowInsertArgs(G), d \in RowData(G) : Apply("try_insert_row", try_insert_row(G, i, d))

SetCol == \E i \in ColArgs(G), d \in ColData(G) : Apply("set_col", set_col(G, i, d))

TrySetCol == \E i \in ColArgs(G), d \in ColData(G) : Apply("try_set_col", try_set_col(G, i, d))

SetRow == \E i \in RowArgs(G), d \in RowData(G) : Apply("set_row", set_row(G, i, d))

TrySetRow == \E i \in RowArgs(G), d \in RowData(G) : Apply("try_set_row", try_set_row(G, i, d))

Resize == \E r \in 0..MaxRows, c \in 0..MaxCols : Apply("resize", resize(G, r, c))

Clear == Apply("clear", clear(G))

\* An iterator was taken and drained: the grid stays, the result tells whether
\* it yielded cells.
Iterate(op, idxs) ==
    /\ Running
    /\ last' = [op |-> op, res |-> IF idxs = <<>> THEN "Empty" ELSE "Cells"]
    /\ UNCHANGED <<cells, row_size, col_size>>

RowIter == \E i \in RowArgs(G) : Iterate("row_iter", row_iter(G, i))

ColIter == \E i \in ColArgs(G) : Iterate("col_iter", col_iter(G, i))

RowIterMut == \E i \in RowArgs(G) : Iterate("row_iter_mut", row_iter_mut(G, i))

ColIterMut == \E i \in ColArgs(G) : Iterate("col_iter_mut", col_iter_mut(G, i))

Next ==
    \/ SetCells
    \/ SetCell
    \/ TrySetCell
    \/ GetCell
    \/ GetCellMut
    \/ InsertCol
    \/ TryInsertCol
    \/ InsertRow
    \/ TryInsertRow
    \/ SetCol
    \/ TrySetCol
    \/ SetRow
    \/ TrySetRow
    \/ Resize
    \/ Clear
    \/ RowIter
    \/ ColIter
    \/ RowIterMut
    \/ ColIterMut

Spec == Init /\ [][Next]_vars

(***************************************************************************)
(* Properties.  CellAt is the addressing the specification gives:          *)
(* index(row, col) = row * col_count + col.                                *)
(***************************************************************************)
CellAt(g, r, c) == At(g.cells, r * g.col_size + c)

GridErrors == {"RowIndexOutOfBounds", "ColIndexOutOfBounds", "RowAndColIndexOutOfBounds"}

Some(cell) == [some |-> TRUE, cell |-> cell]

\* C1: after any sequence of Grid operations, also after a call that returned
\* an error or aborted, the number of stored cells is row_size * col_size.
C1_CellCountIsRowsTimesCols == Len(cells) = row_size * col_size

\* An insert_col on a grid with two rows has grown the grid to three columns
\* and left cells with content in it.
C1_Witness ==
    /\ last = [op |-> "insert_col", res |-> "ok"]
    /\ row_size = 2
    /\ col_size = 3
    /\ CellAt(G, 1, 2) = CellA

\* C2: get_cell and get_cell_mut return None whenever row >= row_size or
\* col >= col_size, and the cell addressed by (row, col) otherwise.
C2_GetCellNoneOutOfBounds ==
    \A r \in RowArgs(G), c \in ColArgs(G) :
        IF r >= row_size \/ c >= col_size
        THEN ~get_cell(G, r, c).some /\ ~get_cell_mut(G, r, c).some
        ELSE /\ get_cell(G, r, c) = Some(CellAt(G, r, c))
             /\ get_cell_mut(G, r, c) = Some(CellAt(G, r, c))

\* What C3 says of the outcome o of inserting column d at i into g.
InsertColPost(g, i, d, o) ==
    /\ o.res = "ok"
    /\ o.g.col_size = g.col_size + 1
    /\ o.g.row_size = g.row_size
    /\ Len(o.g.cells) = o.g.row_size * o.g.col_size
    /\ \A r \in 0..(g.row_size - 1) :
          /\ \A c \in 0..(g.col_size - 1) :
                CellAt(o.g, r, IF c < i THEN c ELSE c + 1) = CellAt(g, r, c)
          /\ r < Len(d) => CellAt(o.g, r, i) = At(d, r)

\* C3: for every index i with 0 <= i <= col_size, insert_col and
\* try_insert_col succeed: col_size grows by 1, row_size is unchanged, the
\* cells of columns < i stay, the cells of columns >= i move one column to the
\* right, and column i holds the new cells.
C3_InsertColShifts ==
    \A i \in 0..col_size, d \in ColData(G) :
        /\ InsertColPost(G, i, d, insert_col(G, i, d))
        /\ InsertColPost(G, i, d, try_insert_col(G, i, d))

\* What C4 says of the outcome o of inserting row d at i into g.
InsertRowPost(g, i, d, o) ==
    /\ o.res = "ok"
    /\ o.g.row_size = g.row_size + 1
    /\ o.g.col_size = g.col_size
    /\ Len(o.g.cells) = o.g.row_size * o.g.col_size
    /\ \A c \in 0..(g.col_size - 1) :
          /\ \A r \in 0..(g.row_size - 1) :
                CellAt(o.g, IF r < i THEN r ELSE r + 1, c) = CellAt(g, r, c)
          /\ c < Len(d) => CellAt(o.g, i, c) = At(d, c)

\* C4: for every index i with 0 <= i <= row_size, insert_row(i, data) grows
\* row_size by 1 and keeps col_size; the cells of rows < i stay, the cells of
\* rows >= i move one row down with the same value, and row i holds the new
\* cells; i = row_size appends.
C4_InsertRowShifts ==
    \A i \in 0..row_size, d \in RowData(G) :
        InsertRowPost(G, i, d, insert_row(G, i, d))

\* An insert_row has acted, and on the grid it left an insert in front of a row
\* that holds a cell with content and formatting moves that cell down.
C4_Witness ==
    /\ last = [op |-> "insert_row", res |-> "ok"]
    /\ row_size = 2
    /\ col_size = 2
    /\ CellAt(G, 1, 1) = CellA
    /\ CellAt(insert_row(G, 1, <<CellA>>).g, 2, 1) = CellA

\* What C5 says of the outcome o of storing v at the in-bounds (r, c) of g.
SetCellPost(g, r, c, v, o) ==
    /\ o.res = "ok"
    /\ o.g.row_size = g.row_size
    /\ o.g.col_size = g.col_size
    /\ Len(o.g.cells) = Len(g.cells)
    /\ get_cell(o.g, r, c) = Some(v)
    /\ \A r2 \in 0..(g.row_size - 1), c2 \in 0..(g.col_size - 1) :
          <<r2, c2>> # <<r, c>> => CellAt(o.g, r2, c2) = CellAt(g, r2, c2)

\* C5: for every in-bounds (r, c) and every cell value v, after set_cell or a
\* successful try_set_cell, get_cell(r, c) returns v, and both dimensions and
\* every cell at any other position are unchanged.
C5_SetCellThenGet ==
    \A r \in 0..(row_size - 1), c \in 0..(col_size - 1), v \in Pool :
        /\ SetCellPost(G, r, c, v, set_cell(G, r, c, v))
        /\ SetCellPost(G, r, c, v, try_set_cell(G, r, c, v))

\* A set_cell has stored a cell in the middle of the second row of a 2 x 3
\* grid, at a flat index the two strides disagree on, and nowhere else.
C5_Witness ==
    /\ last = [op |-> "set_cell", res |-> "ok"]
    /\ row_size = 2
    /\ col_size = 3
    /\ \A r \in 0..1, c \in 0..2 :
          CellAt(G, r, c) = IF <<r, c>> = <<1, 1>> THEN CellA ELSE Cell_default

\* C6: try_set_cell returns RowIndexOutOfBounds when only r is out of bounds,
\* ColIndexOutOfBounds when only c is, RowAndColIndexOutOfBounds when both
\* are, and Ok exactly when both are in bounds; on every error the grid's
\* cells and dimensions are unchanged.
C6_TrySetCellErrorKinds ==
    \A r \in 0..(row_size + 1), c \in 0..(col_size + 1), v \in Pool :
        LET o == try_set_cell(G, r, c, v)
            rowOut == r >= row_size
            colOut == c >= col_size
        IN  /\ o.res = IF rowOut /\ colOut THEN "RowAndColIndexOutOfBounds"
                       ELSE IF rowOut THEN "RowIndexOutOfBounds"
                       ELSE IF colOut THEN "ColIndexOutOfBounds"
                       ELSE "ok"
            /\ o.res # "ok" => o.g = G

\* A try_set_cell with both indices out of bounds has returned on a grid that
\* holds cells.
C6_Witness ==
    /\ last = [op |-> "try_set_cell", res |-> "RowAndColIndexOutOfBounds"]
    /\ row_size = 2
    /\ col_size = 2
    /\ CellAt(G, 1, 1) = CellA

\* The infallible call aborts exactly when the reporting call returns an error,
\* and the reporting call does not abort.
PairAgrees(inf, rep) ==
    /\ (inf.res = "panic") <=> (rep.res \in GridErrors)
    /\ rep.res # "panic"

\* C7: for each infallible/reporting pair and every grid and input, the
\* infallible operation aborts if and only if the reporting operation returns
\* an error, and a reporting operation never aborts.
C7_InfallibleAbortsIffReportingErrs ==
    /\ \A r \in 0..(row_size + 1), c \in 0..(col_size + 1), v \in Pool :
          PairAgrees(set_cell(G, r, c, v), try_set_cell(G, r, c, v))
    /\ \A i \in RowInsertArgs(G), d \in RowData(G) :
          /\ PairAgrees(insert_row(G, i, d), try_insert_row(G, i, d))
          /\ PairAgrees(set_row(G, i, d), try_set_row(G, i, d))
    /\ \A i \in ColInsertArgs(G), d \in ColData(G) :
          /\ PairAgrees(insert_col(G, i, d), try_insert_col(G, i, d))
          /\ PairAgrees(set_col(G, i, d), try_set_col(G, i, d))

\* C8: try_insert_row(i) with i > row_size returns RowIndexOutOfBounds,
\* try_insert_col(i) with i > col_size returns ColIndexOutOfBounds,
\* try_set_row(i) with i >= row_size returns RowIndexOutOfBounds and
\* try_set_col(i) with i >= col_size returns ColIndexOutOfBounds; in each case
\* the grid's cells and dimensions are unchanged.
C8_TryRowColErrorKinds ==
    /\ \A d \in RowData(G) :
          /\ \A i \in (row_size + 1)..(row_size + 2) :
                try_insert_row(G, i, d) = Outcome(G, "RowIndexOutOfBounds")
          /\ \A i \in row_size..(row_size + 1) :
                try_set_row(G, i, d) = Outcome(G, "RowIndexOutOfBounds")
    /\ \A d \in ColData(G) :
          /\ \A i \in (col_size + 1)..(col_size + 2) :
                try_insert_col(G, i, d) = Outcome(G, "ColIndexOutOfBounds")
          /\ \A i \in col_size..(col_size + 1) :
                try_set_col(G, i, d) = Outcome(G, "ColIndexOutOfBounds")

\* A try_set_col with an out-of-bounds column has returned its error on a grid
\* that holds cells.
C8_Witness ==
    /\ last = [op |-> "try_set_col", res |-> "ColIndexOutOfBounds"]
    /\ row_size = 2
    /\ col_size = 2
    /\ CellAt(G, 0, 1) = CellA

\* What C9 says of the outcome o of resizing g to nr x nc.
ResizePost(g, nr, nc, o) ==
    /\ o.res = "ok"
    /\ o.g.row_size = nr
    /\ o.g.col_size = nc
    /\ Len(o.g.cells) = nr * nc
    /\ \A i \in 0..(nr - 1), j \in 0..(nc - 1) :
          CellAt(o.g, i, j) =
              IF i < Min(g.row_size, nr) /\ j < Min(g.col_size, nc) THEN CellAt(g, i, j)
              ELSE Cell_default

\* C9: resize(new_rows, new_cols) yields a grid of exactly new_rows x new_cols
\* in which every cell inside the overlap with the old grid equals the cell
\* that was at the same (row, col), and every other cell is a default cell.
C9_ResizeKeepsOverlap ==
    \A nr \in 0..(row_size + 1), nc \in 0..(col_size + 1) :
        ResizePost(G, nr, nc, resize(G, nr, nc))

\* A resize has widened a two-row grid from two to three columns: the cell of
\* the second row kept its (row, col) and the new column is default.
C9_Witness ==
    /\ last = [op |-> "resize", res |-> "ok"]
    /\ row_size = 2
    /\ col_size = 3
    /\ CellAt(G, 1, 0) = CellA
    /\ CellAt(G, 0, 2) = Cell_default
    /\ CellAt(G, 1, 2) = Cell_default

\* C10: for a grid of size (R, C) and any (r, c), after resize(r, c) followed
\* by resize(R, C) the grid is again R x C, every cell (i, j) with
\* i < min(R, r) and j < min(C, c) has its original value, and every cell with
\* i >= r or j >= c is a default cell.
C10_ResizeRoundTrip ==
    \A r \in 0..(row_size + 1), c \in 0..(col_size + 1) :
        LET back == resize(resize(G, r, c).g, row_size, col_size)
        IN  /\ back.res = "ok"
            /\ back.g.row_size = row_size
            /\ back.g.col_size = col_size
            /\ Len(back.g.cells) = row_size * col_size
            /\ \A i \in 0..(row_size - 1), j \in 0..(col_size - 1) :
                  CellAt(back.g, i, j) =
                      IF i < r /\ j < c THEN CellAt(G, i, j) ELSE Cell_default

\* A resize has acted and left a 2 x 2 grid full of cells with content, from
\* which shrinking to one column and growing back keeps the first column and
\* loses the second.
C10_Witness ==
    /\ last = [op |-> "resize", res |-> "ok"]
    /\ row_size = 2
    /\ col_size = 2
    /\ LET back == resize(resize(G, 2, 1).g, 2, 2).g
       IN  /\ CellAt(G, 0, 1) = CellA /\ CellAt(back, 0, 1) = Cell_default
           /\ CellAt(G, 1, 0) = CellA /\ CellAt(back, 1, 0) = CellA

(***************************************************************************)
(* Text.  A String is the sequence of its characters, each a one-character *)
(* string; "ESC" stands for the byte 0x1b, and the box-drawing characters  *)
(* of border.rs are named by their place ("TL" for the top left corner,    *)
(* "H" for the horizontal fill, "V" for the vertical bar).  All characters *)
(* of the model are one byte wide, so len() and chars().count() agree.     *)
(***************************************************************************)
ESC == "ESC"

\* " ".repeat(n) and the like.
Repeat(ch, n) == [k \in 1..n |-> ch]

\* str::lines(): the pieces between "\n", without a final empty piece.
RECURSIVE SplitLines(_, _, _)
SplitLines(data, cur, acc) ==
    IF data = <<>> THEN (IF cur = <<>> THEN acc ELSE Append(acc, cur))
    ELSE IF Head(data) = "\n" THEN SplitLines(Tail(data), <<>>, Append(acc, cur))
    ELSE SplitLines(Tail(data), Append(cur, Head(data)), acc)

Lines(data) == SplitLines(data, <<>>, <<>>)

RECURSIVE MaxOf(_)
MaxOf(ns) == IF ns = <<>> THEN 0 ELSE Max(Head(ns), MaxOf(Tail(ns)))

\* A variant of Cell::height that never measures less than the content.
Cell_height_at_least_content(cell) ==
    IF cell.height # NoSize THEN Max(cell.height[1], Len(Lines(cell.data)))
    ELSE Len(Lines(cell.data))

\* Cell::height: the explicit height, or the number of lines.
Cell_height(cell) ==
    IF cell.height # NoSize THEN cell.height[1] ELSE Len(Lines(cell.data))

\* Cell::width: the explicit width, or the length of the longest line.
Cell_width(cell) ==
    IF cell.width # NoSize THEN cell.width[1]
    ELSE MaxOf([k \in 1..Len(Lines(cell.data)) |-> Len(Lines(cell.data)[k])])

(***************************************************************************)
(* Escape codes (src/src/ansi.rs) and the colour and style tables.         *)
(***************************************************************************)
\* The decimal digits of n, as the constants of ansi.rs spell them.
RECURSIVE Digits(_)
Digits(n) ==
    IF n < 10 THEN <<At(<<"0", "1", "2", "3", "4", "5", "6", "7", "8", "9">>, n)>>
    ELSE Digits(n \div 10) \o Digits(n % 10)

\* "\x1b[<n>m"
AnsiCode(n) == <<ESC, "[">> \o Digits(n) \o <<"m">>

RESET_ANSI_CODE == AnsiCode(0)

\* The variants of Foreground / Background in declaration order.
ColorNames ==
    <<"Black", "Red", "Green", "Yellow", "Blue", "Magenta", "Cyan", "White",
      "BrightBlack", "BrightRed", "BrightGreen", "BrightYellow", "BrightBlue",
      "BrightMagenta", "BrightCyan", "BrightWhite">>

ColorIndex(color) == CHOOSE k \in 1..Len(ColorNames) : ColorNames[k] = color

Foreground_as_ansi_code(color) ==
    LET k == ColorIndex(color) IN AnsiCode(IF k <= 8 THEN 29 + k ELSE 81 + k)

Background_as_ansi_code(color) ==
    LET k == ColorIndex(color) IN AnsiCode(IF k <= 8 THEN 39 + k ELSE 91 + k)

\* FontStyleFlag::ALL_FLAGS, the codes of as_style_ansi_code in the same order.
ALL_FLAGS == <<1, 2, 4, 8, 16, 32, 64, 128>>

StyleCodes == <<1, 2, 3, 4, 5, 7, 8, 9>>

\* self.flag & flag != 0, for a single-bit flag.
HasFlag(flags, flag) == (flags \div flag) % 2 = 1

\* The codes of the styles the iterator over the flags yields, from index on.
RECURSIVE StyleAnsiCodes(_, _)
StyleAnsiCodes(flags, index) ==
    IF index >= Len(ALL_FLAGS) THEN <<>>
    ELSE (IF HasFlag(flags, At(ALL_FLAGS, index)) THEN AnsiCode(At(StyleCodes, index)) ELSE <<>>)
         \o StyleAnsiCodes(flags, index + 1)

apply_ansi_formatting(text, fg_color, bg_color, style_flags) ==
    LET fg == IF fg_color # None THEN Foreground_as_ansi_code(fg_color) ELSE <<>>
        bg == IF bg_color # None THEN Background_as_ansi_code(bg_color) ELSE <<>>
        st == StyleAnsiCodes(style_flags, 0)
        is_formatted == fg_color # None \/ bg_color # None \/ st # <<>>
    IN  fg \o bg \o st \o text \o (IF is_formatted THEN RESET_ANSI_CODE ELSE <<>>)

(***************************************************************************)
(* Cell::render_lines.  AlignV::default() is Top, AlignH::default() Left.  *)
(***************************************************************************)
UnwrapOr(opt, default) == IF opt = None THEN default ELSE opt

\* target.saturating_sub(height)
SaturatingSub(a, b) == IF a >= b THEN a - b ELSE 0

\* format!("{:<width$}"), "{:>width$}" and "{:^width$}": fill up to width
\* characters with spaces; the centred form puts the smaller half first.
FormatPad(line, h_align, width) ==
    LET pad == SaturatingSub(width, Len(line))
    IN  CASE h_align = "Left"   -> line \o Repeat(" ", pad)
          [] h_align = "Right"  -> Repeat(" ", pad) \o line
          [] h_align = "Center" -> Repeat(" ", pad \div 2) \o line \o Repeat(" ", pad - pad \div 2)

\* line[..n]
Prefix(line, n) == SubSeq(line, 1, n)

\* A variant of the loop body that pads the decorated line to the target
\* width itself, counting the escape bytes as if they were visible.
RenderContentLine_raw_width(cell, text, target_cell_width) ==
    LET line == apply_ansi_formatting(text, cell.fg_color, cell.bg_color, cell.font_style)
        visible_len == Len(text)
        h_align == UnwrapOr(cell.h_align, "Left")
    IN  IF visible_len < target_cell_width
        THEN FormatPad(line, h_align, target_cell_width)
        ELSE IF visible_len = target_cell_width THEN line
        ELSE Prefix(line, target_cell_width)

\* One content line of render_lines: the body of the loop over data_lines.
RenderContentLine(cell, text, target_cell_width) ==
    LET line == apply_ansi_formatting(text, cell.fg_color, cell.bg_color, cell.font_style)
        visible_len == Len(text)
        h_align == UnwrapOr(cell.h_align, "Left")
    IN  IF visible_len < target_cell_width
        THEN FormatPad(line, h_align, target_cell_width + Len(line) - visible_len)
        ELSE IF visible_len = target_cell_width THEN line
        ELSE Prefix(line, target_cell_width)

\* A variant of the top padding that gives Middle the larger half.
TopPad_larger_half(v_align, pad_count) ==
    CASE v_align = "Top"    -> 0
      [] v_align = "Bottom" -> pad_count
      [] v_align = "Middle" -> pad_count - pad_count \div 2

\* The number of padding lines before and after the content.
TopPad(v_align, pad_count) ==
    CASE v_align = "Top"    -> 0
      [] v_align = "Bottom" -> pad_count
      [] v_align = "Middle" -> pad_count \div 2

BottomPad(v_align, pad_count) ==
    CASE v_align = "Top"    -> pad_count
      [] v_align = "Bottom" -> 0
      [] v_align = "Middle" -> pad_count - pad_count \div 2

\* A variant of render_lines that returns the content lines without padding.
render_lines_content_only(cell, target_cell_height, target_cell_width) ==
    [k \in 1..Len(Lines(cell.data)) |->
        RenderContentLine(cell, Lines(cell.data)[k], target_cell_width)]

render_lines(cell, target_cell_height, target_cell_width) ==
    LET data_lines == Lines(cell.data)
        height == Len(data_lines)
        v_align == UnwrapOr(cell.v_align, "Top")
        pad_count == SaturatingSub(target_cell_height, height)
        pad_string == Repeat(" ", target_cell_width)
    IN  Repeat(pad_string, TopPad(v_align, pad_count))
        \o [k \in 1..height |-> RenderContentLine(cell, data_lines[k], target_cell_width)]
        \o Repeat(pad_string, BottomPad(v_align, pad_count))

(***************************************************************************)
(* Border (src/src/border.rs).                                             *)
(***************************************************************************)
TOP_LEFT == <<" ", "TL", "H">>
TOP_MIDDLE == <<"H", "TM", "H">>
TOP_RIGHT == <<"H", "TR", " ">>
MIDDLE_LEFT == <<" ", "ML", "H">>
MIDDLE_MIDDLE == <<"H", "MM", "H">>
MIDDLE_RIGHT == <<"H", "MR", " ">>
BOTTOM_LEFT == <<" ", "BL", "H">>
BOTTOM_MIDDLE == <<"H", "BM", "H">>
BOTTOM_RIGHT == <<"H", "BR", " ">>
VERTICAL == <<" ", "V", " ">>
HORIZONTAL == "H"

\* [String]::join
RECURSIVE Join(_, _)
Join(parts, sep) ==
    IF parts = <<>> THEN <<>>
    ELSE IF Len(parts) = 1 THEN parts[1]
    ELSE parts[1] \o sep \o Join(Tail(parts), sep)

render_border(column_widths, horizontal_fill, rightmost, middle, leftmost) ==
    leftmost
    \o Join([k \in 1..Len(column_widths) |-> Repeat(horizontal_fill, column_widths[k])], middle)
    \o rightmost

render_top_border(column_widths) ==
    render_border(column_widths, HORIZONTAL, TOP_RIGHT, TOP_MIDDLE, TOP_LEFT)

render_mid_border(column_widths) ==
    render_border(column_widths, HORIZONTAL, MIDDLE_RIGHT, MIDDLE_MIDDLE, MIDDLE_LEFT)

render_bot_border(column_widths) ==
    render_border(column_widths, HORIZONTAL, BOTTOM_RIGHT, BOTTOM_MIDDLE, BOTTOM_LEFT)

\* A variant of render_row_lines without the closing vertical bar.
render_row_lines_open_right(lines) == VERTICAL \o Join(lines, VERTICAL)

render_row_lines(lines) == VERTICAL \o Join(lines, VERTICAL) \o VERTICAL

(***************************************************************************)
(* Display for Grid.  The written text is the sequence of its lines, each  *)
(* ended by writeln!.                                                      *)
(***************************************************************************)
\* The cell fmt measures: get_cell(..).unwrap_or(&Cell::default()).
CellOrDefault(g, row_index, col_index) ==
    LET opt == get_cell(g, row_index, col_index)
    IN  IF opt.some THEN opt.cell ELSE Cell_default

row_heights(g) ==
    [r \in 1..g.row_size |->
        MaxOf([c \in 1..g.col_size |-> Cell_height(CellOrDefault(g, r - 1, c - 1))])]

col_widths(g) ==
    [c \in 1..g.col_size |->
        MaxOf([r \in 1..g.row_size |-> Cell_width(CellOrDefault(g, r - 1, c - 1))])]

\* The queues of rendered lines of one row, one per column.
RowQueues(g, row_index) ==
    [c \in 1..g.col_size |->
        LET opt == get_cell(g, row_index, c - 1)
        IN  IF opt.some
            THEN render_lines(opt.cell, At(row_heights(g), row_index), col_widths(g)[c])
            ELSE <<>>]

\* The k-th pass of filter_map(pop_front): the k-th line of every queue that
\* still has one, from column col_index on.
RECURSIVE PopFronts(_, _, _)
PopFronts(queues, k, col_index) ==
    IF col_index >= Len(queues) THEN <<>>
    ELSE (IF k <= Len(At(queues, col_index)) THEN <<At(queues, col_index)[k]>> ELSE <<>>)
         \o PopFronts(queues, k, col_index + 1)

\* The guard of the middle border after row row_index.
MidBorderAlways(g, row_index) == row_index < g.row_size

MidBorderDue(g, row_index) == row_index < g.row_size - 1

\* The lines written for the rows from row_index on.
RECURSIVE FmtRows(_, _)
FmtRows(g, row_index) ==
    IF row_index >= g.row_size THEN <<>>
    ELSE LET queues == RowQueues(g, row_index)
         IN  [k \in 1..At(row_heights(g), row_index) |->
                 render_row_lines(PopFronts(queues, k, 0))]
             \o (IF MidBorderDue(g, row_index) THEN <<render_mid_border(col_widths(g))>> ELSE <<>>)
             \o FmtRows(g, row_index + 1)

\* A variant of fmt that writes a middle border in place of the bottom one.
Grid_fmt_mid_bottom(g) ==
    <<render_top_border(col_widths(g))>>
    \o FmtRows(g, 0)
    \o <<render_mid_border(col_widths(g))>>

Grid_fmt(g) ==
    <<render_top_border(col_widths(g))>>
    \o FmtRows(g, 0)
    \o <<render_bot_border(col_widths(g))>>

(***************************************************************************)
(* Align (src/src/align.rs): a u8 of six flags.                            *)
(***************************************************************************)
\* Bitwise operations on u8.
RECURSIVE BitAnd(_, _)
BitAnd(a, b) ==
    IF a = 0 \/ b = 0 THEN 0
    ELSE (a % 2) * (b % 2) + 2 * BitAnd(a \div 2, b \div 2)

RECURSIVE BitOr(_, _)
BitOr(a, b) ==
    IF a = 0 THEN b
    ELSE IF b = 0 THEN a
    ELSE Max(a % 2, b % 2) + 2 * BitOr(a \div 2, b \div 2)

BitNot(a) == 255 - a

Align_Top == 1
Align_Bottom == 2
Align_Middle == 4
Align_Left == 8
Align_Right == 16
Align_Center == 32

H_MASK == BitOr(BitOr(Align_Left, Align_Center), Align_Right)
V_MASK == BitOr(BitOr(Align_Top, Align_Middle), Align_Bottom)

get_h(align) ==
    LET h == BitAnd(align, H_MASK)
    IN  IF h = Align_Left THEN "Left"
        ELSE IF h = Align_Right THEN "Right"
        ELSE IF h = Align_Center THEN "Center"
        ELSE None

get_v(align) ==
    LET v == BitAnd(align, V_MASK)
    IN  IF v = Align_Top THEN "Top"
        ELSE IF v = Align_Bottom THEN "Bottom"
        ELSE IF v = Align_Middle THEN "Middle"
        ELSE None

\* impl BitOr for Align
bitor(self, rhs) ==
    LET h == BitOr(BitAnd(self, BitNot(H_MASK)), BitAnd(rhs, H_MASK))
        v == BitOr(BitAnd(self, BitNot(V_MASK)), BitAnd(rhs, V_MASK))
    IN  BitOr(h, v)

(***************************************************************************)
(* The setters of Cell (src/src/cell.rs) and the parsers they call.        *)
(***************************************************************************)
\* The strings of Color, in the order of the variants in ColorNames.
ColorStrings ==
    <<"black", "red", "green", "yellow", "blue", "magenta", "cyan", "white",
      "bright black", "bright red", "bright green", "bright yellow", "bright blue",
      "bright magenta", "bright cyan", "bright white">>

Foreground_from_str(color) ==
    IF \E k \in 1..Len(ColorStrings) : ColorStrings[k] = color
    THEN ColorNames[CHOOSE k \in 1..Len(ColorStrings) : ColorStrings[k] = color]
    ELSE None

Background_from_str(color) ==
    IF \E k \in 1..Len(ColorStrings) : ColorStrings[k] = color
    THEN ColorNames[CHOOSE k \in 1..Len(ColorStrings) : ColorStrings[k] = color]
    ELSE None

\* The strings of Style, in the order of ALL_FLAGS.
StyleStrings ==
    <<"bold", "dim", "italic", "underline", "blink", "reverse", "hidden", "strike">>

\* FontStyle::from_str followed by as_flag: the flag of the style, 0 for None.
FontStyle_from_str(style) ==
    IF \E k \in 1..Len(StyleStrings) : StyleStrings[k] = style
    THEN ALL_FLAGS[CHOOSE k \in 1..Len(StyleStrings) : StyleStrings[k] = style]
    ELSE 0

set_height(cell, new_height) == [cell EXCEPT !.height = SomeSize(new_height)]

set_width(cell, new_width) == [cell EXCEPT !.width = SomeSize(new_width)]

set_align_from(cell, new_align) ==
    CASE new_align = "top"    -> [cell EXCEPT !.v_align = "Top"]
      [] new_align = "bottom" -> [cell EXCEPT !.v_align = "Bottom"]
      [] new_align = "middle" -> [cell EXCEPT !.v_align = "Middle"]
      [] new_align = "left"   -> [cell EXCEPT !.h_align = "Left"]
      [] new_align = "right"  -> [cell EXCEPT !.h_align = "Right"]
      [] new_align = "center" -> [cell EXCEPT !.h_align = "Center"]
      [] OTHER                -> cell

set_align(cell, new_align) ==
    [cell EXCEPT !.h_align = get_h(new_align), !.v_align = get_v(new_align)]

set_color(cell, new_color) == [cell EXCEPT !.fg_color = Foreground_from_str(new_color)]

set_highlight(cell, new_color) == [cell EXCEPT !.bg_color = Background_from_str(new_color)]

\* A variant of set_style_from that assigns the flag instead of adding it.
set_style_from_overwrite(cell, new_style) ==
    LET flag == FontStyle_from_str(new_style)
    IN  IF flag # 0 THEN [cell EXCEPT !.font_style = flag]
        ELSE cell

set_style_from(cell, new_style) ==
    LET flag == FontStyle_from_str(new_style)
    IN  IF flag # 0 THEN [cell EXCEPT !.font_style = BitOr(cell.font_style, flag)]
        ELSE cell

\* A variant of remove_format that resets the whole cell but its content.
remove_format_and_size(cell) == Cell_new(cell.data)

remove_format(cell) ==
    [cell EXCEPT !.h_align = None, !.v_align = None, !.fg_color = None,
                 !.bg_color = None, !.font_style = 0]

(***************************************************************************)
(* Rendering specification: grids whose cells are overwritten with cells   *)
(* built through the setters of Cell, and written with Display.            *)
(***************************************************************************)
\* Two lines, the first the longer, centred vertically.
CellTall == set_align_from(Cell_new(<<"a", "b", "\n", "c">>), "middle")

\* Explicit width and height smaller than the content, with a highlight.
CellCut ==
    set_height(set_width(set_highlight(Cell_new(<<"a", "b", "c", "\n", "d">>), "blue"), 2), 1)

RenderPool == {Cell_default, CellA, CellTall, CellCut}

RenderInit ==
    /\ \E g \in {Grid_new(r, c) : r \in 0..MaxRows, c \in 0..MaxCols} :
          /\ Fits(g)
          /\ cells = g.cells
          /\ row_size = g.row_size
          /\ col_size = g.col_size
    /\ last = [op |-> "new", res |-> "ok"]

RenderSetCell ==
    \E r \in 0..(row_size - 1), c \in 0..(col_size - 1), v \in RenderPool :
        Apply("set_cell", set_cell(G, r, c, v))

\* format!("{}", grid): the grid stays, the written lines are kept.
RenderFmt ==
    /\ last' = [op |-> "fmt", res |-> "ok", out |-> Grid_fmt(G)]
    /\ UNCHANGED <<cells, row_size, col_size>>

RenderNext == RenderSetCell \/ RenderFmt

RenderSpec == RenderInit /\ [][RenderNext]_vars

\* The characters of a line a terminal shows: everything outside the escape
\* sequences, which run from ESC to the first "m" (or to the end of the line).
RECURSIVE VisibleText(_, _)
VisibleText(line, in_escape) ==
    IF line = <<>> THEN <<>>
    ELSE IF in_escape THEN VisibleText(Tail(line), Head(line) # "m")
    ELSE IF Head(line) = ESC THEN VisibleText(Tail(line), TRUE)
    ELSE <<Head(line)>> \o VisibleText(Tail(line), FALSE)

Rendered == last.op = "fmt"

\* C11: in the render pass every cell (r, c) is rendered to exactly
\* row_heights[r] lines, each exactly col_widths[c] visible characters wide,
\* cells with an explicit width or height smaller than their content included.
C11_CellRendersToRowHeightByColWidth ==
    Rendered =>
        \A r \in 0..(row_size - 1), c \in 0..(col_size - 1) :
            LET h == At(row_heights(G), r)
                w == At(col_widths(G), c)
                ls == render_lines(CellAt(G, r, c), h, w)
            IN  /\ Len(ls) = h
                /\ \A k \in 1..Len(ls) : Len(VisibleText(ls[k], FALSE)) = w

\* C12: when a content line is longer than the target width W, the visible
\* text of the rendered line is exactly the first W characters of the content
\* line, whatever the colours and style flags of the cell.
C12_TruncationKeepsFirstWCharacters ==
    Rendered =>
        \A r \in 0..(row_size - 1), c \in 0..(col_size - 1) :
            LET cell == CellAt(G, r, c)
                w == At(col_widths(G), c)
                data_lines == Lines(cell.data)
            IN  \A k \in 1..Len(data_lines) :
                    Len(data_lines[k]) > w =>
                        VisibleText(RenderContentLine(cell, data_lines[k], w), FALSE)
                            = Prefix(data_lines[k], w)

RECURSIVE SumOf(_)
SumOf(ns) == IF ns = <<>> THEN 0 ELSE Head(ns) + SumOf(Tail(ns))

\* The number of lines written before the content lines of row r.
LinesBefore(g, r) == 1 + SumOf([k \in 1..r |-> row_heights(g)[k] + 1])

\* The content line k of row r: the k-th rendered lines of the row's cells
\* between vertical bars.
ContentLine(g, r, k) ==
    render_row_lines([c \in 1..g.col_size |->
        render_lines(CellAt(g, r, c - 1), At(row_heights(g), r), col_widths(g)[c])[k]])

AlignFlags ==
    {Align_Top, Align_Bottom, Align_Middle, Align_Left, Align_Right, Align_Center}

\* The operands of | in a call of set_align: a flag, or a value of two axes.
AlignOperands ==
    AlignFlags \cup {bitor(Align_Top, Align_Left), bitor(Align_Bottom, Align_Center)}

\* Strings handed to the setters: words of each vocabulary and one outside it.
AlignStringArgs == {"top", "bottom", "middle", "left", "right", "center", "justify"}

ColorArgs == {"red", "bright blue", "purple"}

StyleArgs == {"bold", "italic", "wavy"}

TheCell == get_cell_mut(G, 0, 0).cell

\* The call named op left the cell as cell; args are the call's arguments.
CellCall(op, args, cell) ==
    /\ get_cell_mut(G, 0, 0).some
    /\ cells' = SetAt(cells, 0, cell)
    /\ last' = [op |-> op, res |-> "ok", args |-> args]
    /\ UNCHANGED <<row_size, col_size>>

CellInit ==
    /\ cells = Grid_new(1, 1).cells
    /\ row_size = Grid_new(1, 1).row_size
    /\ col_size = Grid_new(1, 1).col_size
    /\ last = [op |-> "new", res |-> "ok", args |-> <<>>]

\* cell.set_align(a | b); a | a is the single flag a.
CellSetAlign ==
    \E a \in AlignOperands, b \in AlignOperands :
        CellCall("set_align", <<a, b>>, set_align(TheCell, bitor(a, b)))

CellSetAlignFrom ==
    \E str \in AlignStringArgs : CellCall("set_align_from", <<>>, set_align_from(TheCell, str))

CellSetColor ==
    \E str \in ColorArgs : CellCall("set_color", <<>>, set_color(TheCell, str))

CellSetHighlight ==
    \E str \in ColorArgs : CellCall("set_highlight", <<>>, set_highlight(TheCell, str))

CellSetStyleFrom ==
    \E str \in StyleArgs : CellCall("set_style_from", <<>>, set_style_from(TheCell, str))

CellRemoveFormat == CellCall("remove_format", <<>>, remove_format(TheCell))

CellNext ==
    \/ CellSetAlign
    \/ CellSetAlignFrom
    \/ CellSetColor
    \/ CellSetHighlight
    \/ CellSetStyleFrom
    \/ CellRemoveFormat

CellSpec == CellInit /\ [][CellNext]_vars

\* C13: setting the alignment with a value that names one axis only
\* (set_align with a single flag, set_align_from with one string) leaves the
\* alignment of the other axis as it was.
C13_OneAxisAlignKeepsOtherAxis ==
    /\ \A a \in AlignFlags :
          LET after == set_align(TheCell, a)
          IN  /\ get_h(a) = None => after.h_align = TheCell.h_align
              /\ get_v(a) = None => after.v_align = TheCell.v_align
    /\ \A str \in AlignStringArgs :
          LET after == set_align_from(TheCell, str)
          IN  /\ str \notin {"left", "right", "center"} => after.h_align = TheCell.h_align
              /\ str \notin {"top", "bottom", "middle"} => after.v_align = TheCell.v_align

\* C14: set_color and set_highlight with a string outside the colour
\* vocabulary leave the cell, its previous colours included, unchanged.
C14_UnknownColorKeepsCell ==
    \A str \in ColorArgs :
        (\A k \in 1..Len(ColorStrings) : ColorStrings[k] # str) =>
            /\ set_color(TheCell, str) = TheCell
            /\ set_highlight(TheCell, str) = TheCell

\* C15: for all Align values a and b built from the six flags with |, the
\* horizontal alignment decoded from a | b is that of b when b has one and
\* that of a otherwise, and likewise the vertical one; Left | Right decodes
\* to Right, never to unset.  Checked on the cell that set_align(a | b) leaves.
C15_OrTakesRightOperandPerAxis ==
    last.op = "set_align" =>
        LET a == last.args[1]
            b == last.args[2]
        IN  /\ TheCell.h_align = get_h(bitor(a, b))
            /\ TheCell.v_align = get_v(bitor(a, b))
            /\ get_h(bitor(a, b)) = (IF get_h(b) # None THEN get_h(b) ELSE get_h(a))
            /\ get_v(bitor(a, b)) = (IF get_v(b) # None THEN get_v(b) ELSE get_v(a))

\* The k-th of the first n cells of data, a default cell beyond them.
Padded(data, k) == IF k < Len(data) THEN At(data, k) ELSE Cell_default

\* C17: insert_row (insert_col) at a valid index with new cells of any length
\* n succeeds; the inserted row (column) holds the first min(n, col_size)
\* (min(n, row_size)) supplied cells in order, then default cells, and surplus
\* cells are dropped.
C17_InsertFitsLength ==
    /\ \A i \in 0..row_size, d \in RowData(G) :
          LET o == insert_row(G, i, d)
          IN  /\ o.res = "ok"
              /\ o.g.col_size = col_size
              /\ Len(o.g.cells) = (row_size + 1) * col_size
              /\ \A c \in 0..(col_size - 1) : CellAt(o.g, i, c) = Padded(d, c)
    /\ \A i \in 0..col_size, d \in ColData(G) :
          LET o == insert_col(G, i, d)
          IN  /\ o.res = "ok"
              /\ o.g.row_size = row_size
              /\ Len(o.g.cells) = row_size * (col_size + 1)
              /\ \A r \in 0..(row_size - 1) : CellAt(o.g, r, i) = Padded(d, r)

\* What C18 says of the outcome o of set_row(i, d) on g.
SetRowPost(g, i, d, o) ==
    /\ o.res = "ok"
    /\ o.g.row_size = g.row_size
    /\ o.g.col_size = g.col_size
    /\ Len(o.g.cells) = Len(g.cells)
    /\ \A r \in 0..(g.row_size - 1), c \in 0..(g.col_size - 1) :
          CellAt(o.g, r, c) = IF r = i THEN Padded(d, c) ELSE CellAt(g, r, c)

\* What C18 says of the outcome o of set_col(j, d) on g.
SetColPost(g, j, d, o) ==
    /\ o.res = "ok"
    /\ o.g.row_size = g.row_size
    /\ o.g.col_size = g.col_size
    /\ Len(o.g.cells) = Len(g.cells)
    /\ \A r \in 0..(g.row_size - 1), c \in 0..(g.col_size - 1) :
          CellAt(o.g, r, c) = IF c = j THEN Padded(d, r) ELSE CellAt(g, r, c)

\* C18: set_row(i, data) with i < row_size replaces exactly row i with the
\* first col_size items of data, default cells where data is shorter, surplus
\* ignored; set_col(j, data) with j < col_size does the same to column j with
\* the first row_size items; the dimensions and all other cells stay.
C18_SetRowSetColReplaceExactly ==
    /\ \A i \in 0..(row_size - 1), d \in RowData(G) : SetRowPost(G, i, d, set_row(G, i, d))
    /\ \A j \in 0..(col_size - 1), d \in ColData(G) : SetColPost(G, j, d, set_col(G, j, d))

\* A set_col has left a column whose first cell is the supplied one and whose
\* second is the default padding, beside an untouched column.
C18_Witness ==
    /\ last = [op |-> "set_col", res |-> "ok"]
    /\ row_size = 2
    /\ col_size = 2
    /\ cells = <<CellA, CellA, Cell_default, CellA>>
    /\ set_col(G, 0, <<>>).g.cells = <<Cell_default, CellA, Cell_default, CellA>>

(***************************************************************************)
(* Construction specification: Grid::from on ragged rows.                  *)
(***************************************************************************)
FromInit ==
    /\ cells = <<>>
    /\ row_size = 0
    /\ col_size = 0
    /\ last = [op |-> "none", res |-> "ok", data |-> <<>>]

\* let grid = Grid::from(data)
From ==
    /\ last.op = "none"
    /\ \E d \in FromData :
          /\ Fits(Grid_from(d))
          /\ cells' = Grid_from(d).cells
          /\ row_size' = Grid_from(d).row_size
          /\ col_size' = Grid_from(d).col_size
          /\ last' = [op |-> "from", res |-> "ok", data |-> d]

FromSpec == FromInit /\ [][From]_vars

\* C19: Grid::from(rows) gives row_size = the number of rows and col_size =
\* the length of the longest row (0 without rows); cell (r, c) is the c-th
\* item of row r where it exists and a default cell otherwise, in row-major
\* order.
C19_FromPadsRaggedRows ==
    last.op = "from" =>
        LET d == last.data
        IN  /\ row_size = Len(d)
            /\ \A r \in 1..Len(d) : Len(d[r]) <= col_size
            /\ IF d = <<>> THEN col_size = 0 ELSE \E r \in 1..Len(d) : Len(d[r]) = col_size
            /\ Len(cells) = row_size * col_size
            /\ \A r \in 0..(row_size - 1), c \in 0..(col_size - 1) :
                  At(cells, r * col_size + c) = Padded(At(d, r), c)

\* A grid was built from rows of lengths 1, 2 and 0.
C19_Witness ==
    /\ last.op = "from"
    /\ last.data = <<<<CellA>>, <<CellA, CellA>>, <<>>>>
    /\ cells = <<CellA, Cell_default, CellA, CellA, Cell_default, Cell_default>>

\* The flat indices of row i and of column j in order.
RowIndices(g, i) == [k \in 1..g.col_size |-> i * g.col_size + (k - 1)]

ColIndices(g, j) == [k \in 1..g.row_size |-> (k - 1) * g.col_size + j]

\* C20: row_iter(i) and row_iter_mut(i) with i < row_size yield exactly the
\* cells (i, 0) .. (i, col_size - 1) in order, col_iter(j) and col_iter_mut(j)
\* with j < col_size the cells (0, j) .. (row_size - 1, j); an index out of
\* bounds yields nothing, on grids with zero rows or columns too.
C20_IteratorsYieldRowOrColumn ==
    /\ \A i \in 0..(row_size + 1) :
          LET want == IF i < row_size THEN RowIndices(G, i) ELSE <<>>
          IN  /\ row_iter(G, i) = want
              /\ row_iter_mut(G, i) = want
              /\ \A k \in 1..Len(want) : want[k] < Len(cells)
    /\ \A j \in 0..(col_size + 1) :
          LET want == IF j < col_size THEN ColIndices(G, j) ELSE <<>>
          IN  /\ col_iter(G, j) = want
              /\ col_iter_mut(G, j) = want
              /\ \A k \in 1..Len(want) : want[k] < Len(cells)

\* col_iter was drained with an index out of bounds on a 2 x 3 grid, whose
\* last column is the cells 2 and 5.
C20_Witness ==
    /\ last = [op |-> "col_iter", res |-> "Empty"]
    /\ row_size = 2
    /\ col_size = 3
    /\ col_iter(G, 2) = <<2, 5>>
    /\ col_iter(G, 3) = <<>>

(***************************************************************************)
(* Layout specification: the one cell of a 1 x 1 grid under the setters of *)
(* its content, size and format, written with Display.  The grid renders   *)
(* the cell at its own height and width, so an explicit size is the target *)
(* height or width of render_lines.                                        *)
(***************************************************************************)
MaxSize == 3

set_data(cell, new_data) == [cell EXCEPT !.data = new_data]

clear_height(cell) == [cell EXCEPT !.height = NoSize]

clear_width(cell) == [cell EXCEPT !.width = NoSize]

\* No content; one line; two lines of lengths 2 and 1; three lines, the
\* second empty.
LayoutContents ==
    {<<>>, <<"h">>, <<"a", "b", "\n", "c">>, <<"x", "\n", "\n", "z">>}

LayoutSetData ==
    \E text \in LayoutContents : CellCall("set_data", <<>>, set_data(TheCell, text))

LayoutSetWidth ==
    \E n \in 0..MaxSize : CellCall("set_width", <<>>, set_width(TheCell, n))

LayoutSetHeight ==
    \E n \in 0..MaxSize : CellCall("set_height", <<>>, set_height(TheCell, n))

LayoutClearWidth == CellCall("clear_width", <<>>, clear_width(TheCell))

LayoutClearHeight == CellCall("clear_height", <<>>, clear_height(TheCell))

LayoutSetAlignFrom ==
    \E str \in {"top", "bottom", "middle", "left", "right", "center"} :
        CellCall("set_align_from", <<>>, set_align_from(TheCell, str))

LayoutSetColor == CellCall("set_color", <<>>, set_color(TheCell, "red"))

LayoutSetStyleFrom == CellCall("set_style_from", <<>>, set_style_from(TheCell, "bold"))

LayoutNext ==
    \/ LayoutSetData
    \/ LayoutSetWidth
    \/ LayoutSetHeight
    \/ LayoutClearWidth
    \/ LayoutClearHeight
    \/ LayoutSetAlignFrom
    \/ LayoutSetColor
    \/ LayoutSetStyleFrom
    \/ CellRemoveFormat
    \/ RenderFmt

LayoutSpec == CellInit /\ [][LayoutNext]_vars

\* A colour or a style flag is active on the cell.
Decorated(cell) == cell.fg_color # None \/ cell.bg_color # None \/ cell.font_style # 0

\* The escape sequences that open the decorations of the cell.
Opening(cell) ==
    (IF cell.fg_color # None THEN Foreground_as_ansi_code(cell.fg_color) ELSE <<>>)
    \o (IF cell.bg_color # None THEN Background_as_ansi_code(cell.bg_color) ELSE <<>>)
    \o StyleAnsiCodes(cell.font_style, 0)

RECURSIVE TrimSpaces(_)
TrimSpaces(line) ==
    IF line = <<>> THEN <<>>
    ELSE IF Head(line) = " " THEN TrimSpaces(Tail(line))
    ELSE IF line[Len(line)] = " " THEN TrimSpaces(SubSeq(line, 1, Len(line) - 1))
    ELSE line

\* The line is, between pad spaces, the opening sequences, text without any
\* escape, and one reset sequence.
OpensAndResets(line, cell) ==
    LET t == TrimSpaces(line)
        open == Opening(cell)
        body == SubSeq(t, Len(open) + 1, Len(t) - Len(RESET_ANSI_CODE))
    IN  /\ Len(t) >= Len(open) + Len(RESET_ANSI_CODE)
        /\ SubSeq(t, 1, Len(open)) = open
        /\ SubSeq(t, Len(t) - Len(RESET_ANSI_CODE) + 1, Len(t)) = RESET_ANSI_CODE
        /\ \A i \in 1..Len(body) : body[i] # ESC

\* The target height and width at which the 1 x 1 grid renders its cell.
TargetHeight == row_heights(G)[1]

TargetWidth == col_widths(G)[1]

\* C21: for every content line and every target width, a cell with an active
\* decoration emits the opening escape sequences before the content of the
\* line and exactly one reset sequence after it, and a cell without
\* decoration emits no escape sequence at all.
C21_DecorationOpensAndResets ==
    Rendered =>
        LET data_lines == Lines(TheCell.data)
        IN  \A k \in 1..Len(data_lines) :
                LET line == RenderContentLine(TheCell, data_lines[k], TargetWidth)
                IN  IF Decorated(TheCell) THEN OpensAndResets(line, TheCell)
                    ELSE \A i \in 1..Len(line) : line[i] # ESC

\* The alignment each word names, and the flag of each style word.
HWord == [left |-> "Left", right |-> "Right", center |-> "Center"]

VWord == [top |-> "Top", bottom |-> "Bottom", middle |-> "Middle"]

StyleFlagOf ==
    [bold |-> 1, dim |-> 2, italic |-> 4, underline |-> 8,
     blink |-> 16, reverse |-> 32, hidden |-> 64, strike |-> 128]

\* C22: set_align_from with a string outside {top, bottom, middle, left,
\* right, center} and set_style_from with a string outside the style words
\* leave every field of the cell unchanged; a recognised alignment string
\* sets exactly the axis it names, and a recognised style string adds exactly
\* its flag to the flags set earlier.
C22_StringSettersSetOneThingOrNothing ==
    /\ \A str \in AlignStringArgs :
          LET after == set_align_from(TheCell, str)
          IN  IF str \in DOMAIN HWord THEN after = [TheCell EXCEPT !.h_align = HWord[str]]
              ELSE IF str \in DOMAIN VWord THEN after = [TheCell EXCEPT !.v_align = VWord[str]]
              ELSE after = TheCell
    /\ \A str \in StyleArgs :
          LET after == set_style_from(TheCell, str)
          IN  IF str \in DOMAIN StyleFlagOf
              THEN /\ [after EXCEPT !.font_style = TheCell.font_style] = TheCell
                   /\ \A k \in 1..Len(ALL_FLAGS) :
                         HasFlag(after.font_style, ALL_FLAGS[k])
                             <=> (HasFlag(TheCell.font_style, ALL_FLAGS[k])
                                  \/ ALL_FLAGS[k] = StyleFlagOf[str])
              ELSE after = TheCell

\* A second style was added to a cell that already had one, an alignment and
\* a colour.
C22_Witness ==
    /\ last.op = "set_style_from"
    /\ TheCell.font_style = 5
    /\ TheCell.v_align = "Middle"
    /\ TheCell.fg_color = "Red"
    /\ set_style_from(TheCell, "wavy") = TheCell
    /\ set_align_from(TheCell, "justify") = TheCell

(***************************************************************************)
(* Claims on the layout specification.                                     *)
(***************************************************************************)
\* C23: remove_format sets both alignments and both colours to unset and
\* clears every style flag, and leaves the content and any explicit width or
\* height as they were.
C23_RemoveFormatKeepsContentAndSize ==
    /\ remove_format(TheCell) =
          [data |-> TheCell.data, h_align |-> None, v_align |-> None, fg_color |-> None,
           bg_color |-> None, font_style |-> 0, width |-> TheCell.width,
           height |-> TheCell.height]
    /\ last.op = "remove_format" => ~Decorated(TheCell)

\* remove_format has acted on a cell with content and explicit sizes, and
\* acts again on it after it is formatted anew.
C23_Witness ==
    /\ last.op = "remove_format"
    /\ TheCell.data = <<"a", "b", "\n", "c">>
    /\ TheCell.width = SomeSize(1)
    /\ TheCell.height = SomeSize(3)
    /\ remove_format(set_color(set_align_from(TheCell, "center"), "red")) = TheCell

(***************************************************************************)
(* Table specification: small grids of cells without colour or style, the  *)
(* grid of the README example among them, written with Display.            *)
(***************************************************************************)
TableCells == 4

\* impl From<T: Display> for Cell, on a string.
Cell_from(text) == Cell_new(text)

\* Grid::from([["a", "bb"], ["ccc", "d"]])
ScenarioData ==
    << <<Cell_from(<<"a">>), Cell_from(<<"b", "b">>)>>,
       <<Cell_from(<<"c", "c", "c">>), Cell_from(<<"d">>)>> >>

\* Explicit width and height smaller than the content.
PlainCut == set_height(set_width(Cell_new(<<"a", "b", "c", "\n", "d">>), 2), 1)

\* Explicit width and height larger than the content, centred at the bottom.
PlainBig ==
    set_align_from(set_align_from(set_height(set_width(Cell_new(<<"a">>), 4), 3),
                                  "center"), "bottom")

TablePool ==
    {ScenarioData[r][c] : r \in 1..2, c \in 1..2} \cup {PlainCut, PlainBig}

TableInit ==
    \/ /\ \E g \in {Grid_new(r, c) : r \in 0..MaxRows, c \in 0..MaxCols} :
             /\ Fits(g)
             /\ g.row_size * g.col_size <= TableCells
             /\ cells = g.cells
             /\ row_size = g.row_size
             /\ col_size = g.col_size
       /\ last = [op |-> "new", res |-> "ok"]
    \/ /\ cells = Grid_from(ScenarioData).cells
       /\ row_size = Grid_from(ScenarioData).row_size
       /\ col_size = Grid_from(ScenarioData).col_size
       /\ last = [op |-> "from", res |-> "ok"]

TableSetCell ==
    \E r \in 0..(row_size - 1), c \in 0..(col_size - 1), v \in TablePool :
        Apply("set_cell", set_cell(G, r, c, v))

TableNext == TableSetCell \/ RenderFmt

TableSpec == TableInit /\ [][TableNext]_vars

\* The grid of the example has been written.
ScenarioRendered == Rendered /\ G = Grid_from(ScenarioData)

\* C24 as stated: rendering the 2 x 2 grid built from [["a", "bb"],
\* ["ccc", "d"]] produces a bordered block of exactly 4 lines.
C24_ScenarioHasFourLines == ScenarioRendered => Len(last.out) = 4

\* C24 as amended: rendering the 2 x 2 grid built from [["a", "bb"],
\* ["ccc", "d"]] with no alignment or size set gives column widths [3, 2],
\* row heights [1, 1] and a bordered block of exactly 5 lines: top border,
\* "a" and "bb" padded on the right, middle border, "ccc" and "d", bottom
\* border.
C24_ScenarioHasFiveLines ==
    ScenarioRendered =>
        /\ col_widths(G) = <<3, 2>>
        /\ row_heights(G) = <<1, 1>>
        /\ Len(last.out) = 5
        /\ last.out[1] = render_top_border(<<3, 2>>)
        /\ last.out[2] = VERTICAL \o <<"a", " ", " ">> \o VERTICAL \o <<"b", "b">> \o VERTICAL
        /\ last.out[3] = render_mid_border(<<3, 2>>)
        /\ last.out[4] = VERTICAL \o <<"c", "c", "c">> \o VERTICAL \o <<"d", " ">> \o VERTICAL
        /\ last.out[5] = render_bot_border(<<3, 2>>)

C24_Witness ==
    /\ ScenarioRendered
    /\ Len(last.out) = 5
    /\ Len(last.out[1]) = 14

(***************************************************************************)
(* C25: the measures of cells, rows and columns.                           *)
(***************************************************************************)
\* The number of lines of a text, counted from its line breaks.
AutoHeight(data) ==
    Cardinality({i \in 1..Len(data) : data[i] = "\n"})
    + (IF data # <<>> /\ data[Len(data)] # "\n" THEN 1 ELSE 0)

\* The length of the longest run of characters without a line break.
AutoWidth(data) ==
    LET runs == {<<i, j>> \in (1..Len(data)) \X (1..Len(data)) :
                    /\ i <= j
                    /\ \A k \in i..j : data[k] # "\n"}
    IN  IF runs = {} THEN 0
        ELSE CHOOSE n \in 1..Len(data) :
                /\ \E ij \in runs : ij[2] - ij[1] + 1 = n
                /\ \A ij \in runs : ij[2] - ij[1] + 1 <= n

\* The measure of a cell: the explicit override when set, else the content's.
HeightMeasure(cell) ==
    IF cell.height = NoSize THEN AutoHeight(cell.data) ELSE cell.height[1]

WidthMeasure(cell) ==
    IF cell.width = NoSize THEN AutoWidth(cell.data) ELSE cell.width[1]

\* n is the largest member of ns, or 0 when ns is empty.
IsMaxOf(n, ns) ==
    IF ns = {} THEN n = 0 ELSE n \in ns /\ \A k \in ns : k <= n

\* C25: when a grid is written, row_heights[r] is the maximum over the
\* columns of the cells' heights and col_widths[c] the maximum over the rows
\* of the cells' widths; a cell's height and width are the explicit override
\* when one is set, even if smaller than the content, and otherwise the
\* number of content lines and the length of the longest line;
\* clear_height and clear_width restore the automatic measure; the default
\* cell measures 0 by 0.
C25_MeasuresAreMaxima ==
    Rendered =>
        /\ Len(row_heights(G)) = row_size
        /\ Len(col_widths(G)) = col_size
        /\ \A r \in 1..row_size :
              IsMaxOf(row_heights(G)[r],
                      {HeightMeasure(CellAt(G, r - 1, c - 1)) : c \in 1..col_size})
        /\ \A c \in 1..col_size :
              IsMaxOf(col_widths(G)[c],
                      {WidthMeasure(CellAt(G, r - 1, c - 1)) : r \in 1..row_size})
        /\ \A i \in 1..Len(cells) :
              /\ Cell_height(cells[i]) = HeightMeasure(cells[i])
              /\ Cell_width(cells[i]) = WidthMeasure(cells[i])
              /\ Cell_height(clear_height(cells[i])) = AutoHeight(cells[i].data)
              /\ Cell_width(clear_width(cells[i])) = AutoWidth(cells[i].data)
              /\ clear_height(cells[i]).width = cells[i].width
              /\ clear_width(cells[i]).height = cells[i].height
              /\ Cell_height(set_height(cells[i], 0)) = 0
              /\ Cell_width(set_width(cells[i], 1)) = 1
              /\ cells[i] = Cell_default =>
                    Cell_height(cells[i]) = 0 /\ Cell_width(cells[i]) = 0

\* A written grid in which an override smaller than the content decides a
\* column's width while a taller neighbour decides the row's height.
C25_Witness ==
    /\ Rendered
    /\ row_size >= 2 /\ col_size >= 2
    /\ \E r \in 1..row_size, c \in 1..col_size, d \in 1..col_size :
          /\ CellAt(G, r - 1, c - 1) = CellCut
          /\ CellAt(G, r - 1, d - 1) = CellTall
          /\ row_heights(G)[r] = 2
          /\ col_widths(G)[c] = 2
          /\ AutoWidth(CellCut.data) = 3
          /\ AutoHeight(CellCut.data) = 2

(***************************************************************************)
(* C26, C27: vertical and horizontal placement of a cell's content.        *)
(***************************************************************************)
\* The lines of the cell as the 1 x 1 grid wrote them: the lines between the
\* two borders, without the vertical bars.
WrittenCellLines ==
    [k \in 1..(Len(last.out) - 2) |->
        SubSeq(last.out[k + 1], Len(VERTICAL) + 1, Len(last.out[k + 1]) - Len(VERTICAL))]

\* The blank lines expected before the content.
BlankBefore(cell, pad) ==
    CASE cell.v_align = "Bottom" -> pad
      [] cell.v_align = "Middle" -> pad \div 2
      [] OTHER -> 0

\* C26: a cell with N content lines rendered at a target height H >= N has
\* H - N blank lines: all after the content for Top or an unset alignment,
\* all before it for Bottom, floor((H - N) / 2) before and the rest after for
\* Middle; every blank line is exactly target_width spaces without any escape
\* sequence, and the content lines keep their order.
C26_VerticalPadPlacement ==
    (Rendered /\ TargetHeight >= Len(Lines(TheCell.data))) =>
        LET data_lines == Lines(TheCell.data)
            N == Len(data_lines)
            before == BlankBefore(TheCell, TargetHeight - N)
            ls == WrittenCellLines
        IN  /\ Len(ls) = TargetHeight
            /\ \A k \in 1..TargetHeight :
                  IF k <= before \/ k > before + N
                  THEN ls[k] = [i \in 1..TargetWidth |-> " "]
                  ELSE /\ ls[k] = RenderContentLine(TheCell, data_lines[k - before], TargetWidth)
                       /\ Len(data_lines[k - before]) <= TargetWidth =>
                             TrimSpaces(VisibleText(ls[k], FALSE)) = data_lines[k - before]

\* A decorated one-line cell written at height 3 with Middle alignment: one
\* blank line before and one after.
C26_Witness ==
    /\ Rendered
    /\ Decorated(TheCell)
    /\ TheCell.v_align = "Middle"
    /\ TheCell.data = <<"h">>
    /\ TargetHeight = 3
    /\ TargetWidth = 2
    /\ WrittenCellLines[1] = <<" ", " ">>
    /\ VisibleText(WrittenCellLines[2], FALSE) = <<"h", " ">>
    /\ WrittenCellLines[3] = <<" ", " ">>

\* The spaces expected on the left of a content line.
SpacesLeft(cell, pad) ==
    CASE cell.h_align = "Right"  -> pad
      [] cell.h_align = "Center" -> pad \div 2
      [] OTHER -> 0

\* The content line with its decoration, if the cell has any.
DecoratedText(cell, text) ==
    IF Decorated(cell) THEN Opening(cell) \o text \o RESET_ANSI_CODE ELSE text

\* C27: a content line of visible length L written at a target width W > L
\* gets exactly W - L pad spaces: all on the right for Left or an unset
\* alignment, all on the left for Right, floor((W - L) / 2) on the left and
\* the remainder on the right for Center; the counts are the same whether or
\* not the cell is decorated.
C27_HorizontalPadPlacement ==
    Rendered =>
        LET data_lines == Lines(TheCell.data)
            N == Len(data_lines)
            before == BlankBefore(TheCell, SaturatingSub(TargetHeight, N))
        IN  \A k \in 1..N :
                (before + k <= Len(WrittenCellLines) /\ Len(data_lines[k]) < TargetWidth) =>
                    LET pad == TargetWidth - Len(data_lines[k])
                        left == SpacesLeft(TheCell, pad)
                        written == WrittenCellLines[before + k]
                    IN  /\ written = [i \in 1..left |-> " "]
                                     \o DecoratedText(TheCell, data_lines[k])
                                     \o [i \in 1..(pad - left) |-> " "]
                        /\ Len(VisibleText(written, FALSE)) = TargetWidth

\* A decorated, centred cell "ab" / "c" written at width 3: the first line
\* gets its one pad space on the right, the second one space on each side.
C27_Witness ==
    /\ Rendered
    /\ Decorated(TheCell)
    /\ TheCell.h_align = "Center"
    /\ TheCell.data = <<"a", "b", "\n", "c">>
    /\ TargetWidth = 3
    /\ TargetHeight = 2
    /\ VisibleText(WrittenCellLines[1], FALSE) = <<"a", "b", " ">>
    /\ VisibleText(WrittenCellLines[2], FALSE) = <<" ", "c", " ">>
    /\ Len(WrittenCellLines[2]) > 3

(***************************************************************************)
(* C28: the width of the written block.                                    *)
(***************************************************************************)
\* No cell of the grid carries a colour or a style.
Undecorated == \A i \in 1..Len(cells) : ~Decorated(cells[i])

\* C28 as stated: for every grid whose cells carry no colour or style
\* decoration, every written line, border or content, has the same character
\* length, namely sum(col_widths) + 3 * col_size + 3.
C28_LineLengthFormula ==
    (Rendered /\ Undecorated) =>
        \A i \in 1..Len(last.out) :
            Len(last.out[i]) = SumOf(col_widths(G)) + 3 * col_size + 3

\* C28 as amended: for every grid whose cells carry no colour or style
\* decoration, every written line, border or content, has the same character
\* length, namely sum(col_widths) + 3 * col_size + 3 when the grid has at
\* least one column, and 6 when it has none.
C28_LineLengthWithColumns ==
    (Rendered /\ Undecorated) =>
        /\ \A i, j \in 1..Len(last.out) : Len(last.out[i]) = Len(last.out[j])
        /\ \A i \in 1..Len(last.out) :
              Len(last.out[i]) =
                  IF col_size = 0 THEN 6
                  ELSE SumOf(col_widths(G)) + 3 * col_size + 3

\* A written 2 x 2 grid with a truncated cell and an enlarged, aligned cell
\* side by side: 7 lines (two borders, 3 + 1 content lines, a middle border),
\* each 4 + 2 + 9 characters long.
C28_Witness ==
    /\ Rendered
    /\ Undecorated
    /\ row_size = 2 /\ col_size = 2
    /\ CellAt(G, 0, 0) = PlainBig
    /\ CellAt(G, 0, 1) = PlainCut
    /\ CellAt(G, 1, 0) = PlainCut
    /\ CellAt(G, 1, 1) = Cell_from(<<"d">>)
    /\ col_widths(G) = <<4, 2>>
    /\ \A i \in 1..Len(last.out) : Len(last.out[i]) = 15

(***************************************************************************)
(* C29: the number of lines a cell renders to, and the render pass.        *)
(***************************************************************************)
\* The number of vertical bars in a written line.
Bars(line) == Cardinality({i \in 1..Len(line) : line[i] = "V"})

\* C29: render_lines(H, W) returns exactly max(H, N) lines for a cell with N
\* content lines; so in the render pass each of the row_heights[r] content
\* lines of a row takes a line from every column, none skipped, and when a
\* cell has more lines than its row's height only its first row_heights[r]
\* rendered lines are written.
C29_RenderLinesCountAndPass ==
    Rendered =>
        \A r \in 0..(row_size - 1) :
            LET h == At(row_heights(G), r)
                rendered == [c \in 1..col_size |->
                                render_lines(CellAt(G, r, c - 1), h, col_widths(G)[c])]
            IN  /\ \A c \in 1..col_size :
                      Len(rendered[c]) = Max(h, Len(Lines(CellAt(G, r, c - 1).data)))
                /\ \A k \in 1..h :
                      /\ Len(PopFronts(RowQueues(G, r), k, 0)) = col_size
                      /\ Bars(last.out[LinesBefore(G, r) + k]) = col_size + 1
                      /\ last.out[LinesBefore(G, r) + k] =
                            render_row_lines([c \in 1..col_size |-> rendered[c][k]])

\* A written grid whose first row has height 1 and holds a two-line cell cut
\* to its first line, and whose second row has height 2 and holds a one-line
\* cell padded to two lines.
C29_Witness ==
    /\ Rendered
    /\ row_size = 2 /\ col_size = 2
    /\ CellAt(G, 0, 0) = CellCut
    /\ CellAt(G, 0, 1) = CellA
    /\ CellAt(G, 1, 0) = CellTall
    /\ CellAt(G, 1, 1) = CellA
    /\ row_heights(G) = <<1, 2>>
    /\ Len(render_lines(CellCut, 1, 2)) = 2
    /\ Len(render_lines(CellA, 2, 1)) = 2
    /\ Len(last.out) = 6

====
